---------------------------- MODULE Spec2Model ----------------------------
(* Model of backend/app.py: a Flask task manager with JWT authentication,  *)
(* two tables (User, Task), a 24h reminder job and a start-up sequence     *)
(* that waits for the database.                                            *)
(* Strings that the code parses or formats (dates, the JWT identity) are   *)
(* sequences of one-character strings; other strings are TLA+ strings.     *)
EXTENDS Integers, Sequences, FiniteSets, TLC

VARIABLES
    User,       \* table user: row i has primary key i
    Task,       \* table task: row i has primary key i
    today,      \* date.today(), <<year, month, day>>
    days,       \* number of day changes so far
    req,        \* the request (or job run) handled last
    resp,       \* its response (or what the job printed)
    pc,         \* position of the module-level start-up code
    retries,    \* init_db's local counter
    dbUp,       \* the database accepts connections
    schema      \* db.create_all() has succeeded

vars == <<User, Task, today, days, req, resp, pc, retries, dbUp, schema>>

appVars == <<User, Task, today, days, req, resp>>
bootVars == <<pc, retries, dbUp, schema>>

-----------------------------------------------------------------------------
(* Bounds *)
MaxTasks == 2
MaxDays == 1

-----------------------------------------------------------------------------
(* Characters and integers as text *)
DigitChars == <<"0", "1", "2", "3", "4", "5", "6", "7", "8", "9">>

IsDigit(c) == \E i \in 1..10 : DigitChars[i] = c

DigitVal(c) == (CHOOSE i \in 1..10 : DigitChars[i] = c) - 1

RECURSIVE str(_)
str(n) == IF n < 10 THEN <<DigitChars[n + 1]>>
          ELSE Append(str(n \div 10), DigitChars[(n % 10) + 1])

RECURSIVE int(_)
int(s) == IF Len(s) = 1 THEN DigitVal(s[1])
          ELSE 10 * int(SubSeq(s, 1, Len(s) - 1)) + DigitVal(s[Len(s)])

Pad(n, w) == LET s == str(n)
             IN  [i \in 1..(w - Len(s)) |-> "0"] \o s

-----------------------------------------------------------------------------
(* Calendar dates *)
IsLeap(y) == (y % 4 = 0) /\ ((y % 100 # 0) \/ (y % 400 = 0))

DaysInMonth(y, m) ==
    IF m = 2 THEN (IF IsLeap(y) THEN 29 ELSE 28)
    ELSE IF m \in {4, 6, 9, 11} THEN 30 ELSE 31

DateLess(a, b) ==
    \/ a[1] < b[1]
    \/ a[1] = b[1] /\ a[2] < b[2]
    \/ a[1] = b[1] /\ a[2] = b[2] /\ a[3] < b[3]

Tomorrow(d) ==
    IF d[3] < DaysInMonth(d[1], d[2]) THEN <<d[1], d[2], d[3] + 1>>
    ELSE IF d[2] < 12 THEN <<d[1], d[2] + 1, 1>>
    ELSE <<d[1] + 1, 1, 1>>

ValueError == <<>>

(* %m of strptime: 1[0-2]|0[1-9]|[1-9] *)
MonthRe(s) ==
    \/ Len(s) = 2 /\ s[1] = "1" /\ s[2] \in {"0", "1", "2"}
    \/ Len(s) = 2 /\ s[1] = "0" /\ IsDigit(s[2]) /\ s[2] # "0"
    \/ Len(s) = 1 /\ IsDigit(s[1]) /\ s[1] # "0"

(* %d of strptime: 3[0-1]|[1-2]\d|0[1-9]|[1-9]| [1-9] *)
DayRe(s) ==
    \/ Len(s) = 2 /\ s[1] = "3" /\ s[2] \in {"0", "1"}
    \/ Len(s) = 2 /\ s[1] \in {"1", "2"} /\ IsDigit(s[2])
    \/ Len(s) = 2 /\ s[1] = "0" /\ IsDigit(s[2]) /\ s[2] # "0"
    \/ Len(s) = 1 /\ IsDigit(s[1]) /\ s[1] # "0"
    \/ Len(s) = 2 /\ s[1] = " " /\ IsDigit(s[2]) /\ s[2] # "0"

Field(s) == IF s[1] = " " THEN int(SubSeq(s, 2, Len(s))) ELSE int(s)

(* Strptime without the check that the day exists in the month *)
Strptime_AnyDay(s) ==
    LET splits == { c \in {1, 2} \X {1, 2} :
                      /\ Len(s) = 6 + c[1] + c[2]
                      /\ \A i \in 1..4 : IsDigit(s[i])
                      /\ s[5] = "-"
                      /\ MonthRe(SubSeq(s, 6, 5 + c[1]))
                      /\ s[6 + c[1]] = "-"
                      /\ DayRe(SubSeq(s, 7 + c[1], 6 + c[1] + c[2])) }
    IN  IF splits = {} THEN ValueError
        ELSE LET c == CHOOSE x \in splits : TRUE
             IN  <<int(SubSeq(s, 1, 4)), Field(SubSeq(s, 6, 5 + c[1])),
                   Field(SubSeq(s, 7 + c[1], 6 + c[1] + c[2]))>>

(* datetime.strptime(s, "%Y-%m-%d"), stored in a Date column: the whole    *)
(* string must match \d\d\d\d-%m-%d and name a day that exists.            *)
Strptime(s) ==
    LET splits == { c \in {1, 2} \X {1, 2} :
                      /\ Len(s) = 6 + c[1] + c[2]
                      /\ \A i \in 1..4 : IsDigit(s[i])
                      /\ s[5] = "-"
                      /\ MonthRe(SubSeq(s, 6, 5 + c[1]))
                      /\ s[6 + c[1]] = "-"
                      /\ DayRe(SubSeq(s, 7 + c[1], 6 + c[1] + c[2])) }
    IN  IF splits = {} THEN ValueError
        ELSE LET c == CHOOSE x \in splits : TRUE
                 y == int(SubSeq(s, 1, 4))
                 m == Field(SubSeq(s, 6, 5 + c[1]))
                 d == Field(SubSeq(s, 7 + c[1], 6 + c[1] + c[2]))
             IN  IF y < 1 \/ d > DaysInMonth(y, m) THEN ValueError
                 ELSE <<y, m, d>>

(* date.isoformat() *)
Isoformat(d) == Pad(d[1], 4) \o <<"-">> \o Pad(d[2], 2) \o <<"-">> \o Pad(d[3], 2)

-----------------------------------------------------------------------------
(* Request inputs *)
Salts == {"s1"}

(* bodies of POST /register *)
Registrations ==
    { [username |-> "alice", password |-> "pw1"],
      [username |-> "bob", password |-> "pw1"] }

(* bodies of POST /login: also a wrong password *)
Credentials ==
    Registrations \cup { [username |-> "alice", password |-> "pw2"] }

TaskData ==
    { [title |-> "Pay rent", priority |-> "High",
       due_date |-> <<"2", "0", "2", "4", "-", "0", "1", "-", "0", "1">>],
      [title |-> "Call mom", priority |-> "Medium",
       due_date |-> <<"2", "0", "2", "4", "-", "6", "-", "1">>],
      [title |-> "Pay rent", priority |-> "High",
       due_date |-> <<"2", "0", "2", "4", "-", "0", "2", "-", "3", "0">>],
      [title |-> "Pay rent", priority |-> "High",
       due_date |-> <<"0", "1", "/", "0", "6", "/", "2", "0", "2", "4">>] }

FirstDay == <<2024, 5, 31>>

-----------------------------------------------------------------------------
(* werkzeug.security: a salted one-way hash. The digest is an injective    *)
(* pairing of salt and password, so a check succeeds only for the password *)
(* that was hashed.                                                        *)
Digest(salt, password) == <<salt, password>>

generate_password_hash(password, salt) ==
    [salt |-> salt, digest |-> Digest(salt, password)]

(* a check that compares nothing *)
check_password_hash_Any(pwhash, password) == pwhash.salt \in Salts

check_password_hash(pwhash, password) ==
    Digest(pwhash.salt, password) = pwhash.digest

(* flask_jwt_extended: a token carries the identity and is signed with     *)
(* the configured key; jwt_required accepts a token signed with that key.  *)
JWT_SECRET_KEY == "secret"

NoToken == [sub |-> <<>>, key |-> "none"]

create_access_token(identity) == [sub |-> identity, key |-> JWT_SECRET_KEY]

(* a guard that does not verify the signature *)
jwt_required_Unsigned(token) == token # NoToken

jwt_required(token) == token # NoToken /\ token.key = JWT_SECRET_KEY

get_jwt_identity(token) == token.sub

ForgedTokens == { [sub |-> str(1), key |-> "guess"] }

(* Tokens a client can send: none, a forged one, or one that /login hands  *)
(* out, which it does for every registered user who knows the password.   *)
Presentable ==
    {create_access_token(str(User[i].id)) : i \in 1..Len(User)}
        \cup ForgedTokens \cup {NoToken}

-----------------------------------------------------------------------------
(* Queries *)
(* User.query.filter_by(username=...).first() *)
UserByName(username) ==
    LET F(u) == u.username = username
        rows == SelectSeq(User, F)
    IN  IF rows = <<>> THEN <<>> ELSE <<rows[1]>>

(* Task.query.filter_by(user_id=user_id) *)
TasksOf(user_id) ==
    LET F(t) == t.user_id = user_id
    IN  SelectSeq(Task, F)

(* the lookup without the owner *)
TaskByIdAndUser_AnyOwner(T, id, user_id) ==
    LET F(t) == t.id = id
        rows == SelectSeq(T, F)
    IN  IF rows = <<>> THEN <<>> ELSE <<rows[1]>>

(* Task.query.filter_by(id=id, user_id=user_id).first() *)
TaskByIdAndUser(T, id, user_id) ==
    LET F(t) == t.id = id /\ t.user_id = user_id
        rows == SelectSeq(T, F)
    IN  IF rows = <<>> THEN <<>> ELSE <<rows[1]>>

(* Task.query.filter_by(user_id=user_id, status=status).count() *)
CountStatus(user_id, status) ==
    LET F(t) == t.user_id = user_id /\ t.status = status
    IN  Len(SelectSeq(Task, F))

(* the priority count over the pending tasks only *)
CountPriority_Pending(user_id, priority) ==
    LET F(t) == t.user_id = user_id /\ t.priority = priority /\ t.status = "Pending"
    IN  Len(SelectSeq(Task, F))

(* Task.query.filter_by(user_id=user_id, priority=priority).count() *)
CountPriority(user_id, priority) ==
    LET F(t) == t.user_id = user_id /\ t.priority = priority
    IN  Len(SelectSeq(Task, F))

(* the overdue query without the status filter *)
Overdue_AnyStatus(user_id) ==
    LET F(t) == t.user_id = user_id /\ DateLess(t.due_date, today)
    IN  SelectSeq(Task, F)

(* Task.query.filter(user_id == .., status != "Completed", due_date < today) *)
Overdue(user_id) ==
    LET F(t) == t.user_id = user_id /\ t.status # "Completed"
                /\ DateLess(t.due_date, today)
    IN  SelectSeq(Task, F)

(* Task.query.filter(user_id == .., status != "Completed", due_date == today) *)
DueToday(user_id) ==
    LET F(t) == t.user_id = user_id /\ t.status # "Completed"
                /\ t.due_date = today
    IN  SelectSeq(Task, F)

(* Task.query.filter(status != "Completed", due_date < today).count() *)
OverdueAll ==
    LET F(t) == t.status # "Completed" /\ DateLess(t.due_date, today)
    IN  Len(SelectSeq(Task, F))

Titles(rows) == [i \in 1..Len(rows) |-> [title |-> rows[i].title]]

Serialize(rows) ==
    [i \in 1..Len(rows) |-> [id |-> rows[i].id, title |-> rows[i].title,
                             status |-> rows[i].status,
                             priority |-> rows[i].priority,
                             due_date |-> Isoformat(rows[i].due_date)]]

-----------------------------------------------------------------------------
(* HTTP requests. A view behind jwt_required reaches its queries only     *)
(* with a token of a registered user, so only /register and /login can    *)
(* meet a database without tables.                                         *)
NoRequest == [op |-> "none", token |-> NoToken, data |-> <<>>]

Serving == pc = "serving" /\ schema

Respond(op, token, data, status, body) ==
    /\ req' = [op |-> op, token |-> token, data |-> data]
    /\ resp' = [status |-> status, body |-> body]

Protected == {"tasks_GET", "tasks_POST", "complete_task", "stats", "reminders"}

(* the jwt_required() decorator of a protected view rejects the request   *)
(* before the view runs, so before its body or path argument is read      *)
jwt_rejected(op, token) ==
    /\ pc = "serving"
    /\ ~jwt_required(token)
    /\ Respond(op, token, <<>>, 401, [error |-> "Unauthorized"])
    /\ UNCHANGED <<User, Task, today, days, bootVars>>

(* register on a column without the unique constraint *)
register_NotUnique(data, salt) ==
    /\ pc = "serving" /\ schema
    /\ User' = Append(User,
            [id |-> Len(User) + 1, username |-> data.username,
             password |-> [salt |-> salt, digest |-> <<salt, data.password>>]])
    /\ req' = [op |-> "register", token |-> [sub |-> <<>>, key |-> "none"], data |-> data]
    /\ resp' = [status |-> 200, body |-> [message |-> "User registered"]]
    /\ UNCHANGED <<Task, today, days, bootVars>>

(* POST /register: the unique constraint on username makes the commit of   *)
(* a second row with the same username fail, and nothing is stored.        *)
register(data, salt) ==
    /\ Serving
    /\ IF UserByName(data.username) # <<>>
       THEN /\ Respond("register", NoToken, data, 500, [error |-> "DuplicateUser"])
            /\ UNCHANGED User
       ELSE /\ User' = Append(User,
                   [id |-> Len(User) + 1, username |-> data.username,
                    password |-> generate_password_hash(data.password, salt)])
            /\ Respond("register", NoToken, data, 200, [message |-> "User registered"])
    /\ UNCHANGED <<Task, today, days, bootVars>>

(* POST /login *)
login(data) ==
    /\ Serving
    /\ LET user == UserByName(data.username)
       IN  IF user # <<>> /\ check_password_hash(user[1].password, data.password)
           THEN LET token == create_access_token(str(user[1].id))
                IN  Respond("login", NoToken, data, 200, [access_token |-> token])
           ELSE Respond("login", NoToken, data, 401, [error |-> "Invalid credentials"])
    /\ UNCHANGED <<User, Task, today, days, bootVars>>

(* GET /tasks *)
tasks_GET(token) ==
    /\ pc = "serving"
    /\ jwt_required(token)
    /\ LET user_id == int(get_jwt_identity(token))
       IN  /\ Respond("tasks_GET", token, <<>>, 200, Serialize(TasksOf(user_id)))
           /\ UNCHANGED <<User, Task>>
    /\ UNCHANGED <<today, days, bootVars>>

(* POST /tasks *)
tasks_POST(token, data) ==
    /\ pc = "serving"
    /\ jwt_required(token)
    /\ LET user_id == int(get_jwt_identity(token))
           due_date == Strptime(data.due_date)
       IN  IF due_date = ValueError
           THEN /\ Respond("tasks_POST", token, data, 500, [error |-> "InvalidInput"])
                /\ UNCHANGED <<User, Task>>
           ELSE /\ Len(Task) < MaxTasks
                /\ Task' = Append(Task,
                       [id |-> Len(Task) + 1, title |-> data.title,
                        status |-> "Pending", priority |-> data.priority,
                        due_date |-> due_date, user_id |-> user_id])
                /\ Respond("tasks_POST", token, data, 200, [message |-> "Task created"])
                /\ UNCHANGED User
    /\ UNCHANGED <<today, days, bootVars>>

(* complete_task that refuses a task that is already Completed *)
CompleteTask_Once(T, token, id) ==
    LET user_id == int(get_jwt_identity(token))
        task == TaskByIdAndUser(T, id, user_id)
    IN  IF task = <<>>
        THEN [T |-> T, status |-> 404, body |-> [error |-> "Not found"]]
        ELSE IF task[1].status = "Completed"
        THEN [T |-> T, status |-> 409, body |-> [error |-> "Already completed"]]
        ELSE [T |-> [T EXCEPT ![task[1].id].status = "Completed"],
              status |-> 200, body |-> [message |-> "Completed"]]

(* the body of complete_task on task table T: the table it leaves and the *)
(* response                                                               *)
CompleteTask(T, token, id) ==
    LET user_id == int(get_jwt_identity(token))
        task == TaskByIdAndUser(T, id, user_id)
    IN  IF task = <<>>
        THEN [T |-> T, status |-> 404, body |-> [error |-> "Not found"]]
        ELSE [T |-> [T EXCEPT ![task[1].id].status = "Completed"],
              status |-> 200, body |-> [message |-> "Completed"]]

(* PUT /tasks/<id>/complete *)
complete_task(token, id) ==
    /\ pc = "serving"
    /\ jwt_required(token)
    /\ LET r == CompleteTask(Task, token, id)
       IN  /\ Task' = r.T
           /\ Respond("complete_task", token, id, r.status, r.body)
    /\ UNCHANGED <<User, today, days, bootVars>>

(* GET /stats *)
stats(token) ==
    /\ pc = "serving"
    /\ jwt_required(token)
    /\ LET user_id == int(get_jwt_identity(token))
           total == Len(TasksOf(user_id))
           completed == CountStatus(user_id, "Completed")
           pending == total - completed
       IN  /\ Respond("stats", token, <<>>, 200,
                  [status |-> [completed |-> completed, pending |-> pending],
                   priority |-> [Low |-> CountPriority(user_id, "Low"),
                                 Medium |-> CountPriority(user_id, "Medium"),
                                 High |-> CountPriority(user_id, "High")]])
           /\ UNCHANGED <<User, Task>>
    /\ UNCHANGED <<today, days, bootVars>>

(* GET /reminders *)
reminders(token) ==
    /\ pc = "serving"
    /\ jwt_required(token)
    /\ LET user_id == int(get_jwt_identity(token))
       IN  /\ Respond("reminders", token, <<>>, 200,
                  [overdue |-> Titles(Overdue(user_id)),
                   today |-> Titles(DueToday(user_id))])
           /\ UNCHANGED <<User, Task>>
    /\ UNCHANGED <<today, days, bootVars>>

(* a job that marks what it counts *)
reminder_job_Marks ==
    /\ schema
    /\ Task' = [i \in 1..Len(Task) |->
                  IF Task[i].status # "Completed" /\ DateLess(Task[i].due_date, today)
                  THEN [Task[i] EXCEPT !.status = "Overdue"] ELSE Task[i]]
    /\ req' = [op |-> "reminder_job", token |-> [sub |-> <<>>, key |-> "none"], data |-> <<>>]
    /\ resp' = [status |-> 0, body |-> [printed |-> 0]]
    /\ UNCHANGED <<User, today, days, bootVars>>

(* The scheduler's job: counts the overdue tasks of all users and prints   *)
(* the count when it is positive.                                          *)
reminder_job ==
    /\ schema
    /\ LET overdue == OverdueAll
       IN  Respond("reminder_job", NoToken, <<>>, 0,
                   IF overdue > 0 THEN [printed |-> overdue] ELSE [printed |-> 0])
    /\ UNCHANGED <<User, Task, today, days, bootVars>>

(* date.today() moves to the next day *)
NextDay ==
    /\ days < MaxDays
    /\ today' = Tomorrow(today)
    /\ days' = days + 1
    /\ UNCHANGED <<User, Task, req, resp, bootVars>>

-----------------------------------------------------------------------------
(* Start-up: init_db() and then app.run() *)
InitialRetries == 5

(* one pass of the while loop: db.create_all() succeeds, the loop is left  *)
(* and init_db returns (its local retries is gone, written 0), or          *)
(* OperationalError is caught and a retry is used up                       *)
init_db_try ==
    /\ pc = "init_db"
    /\ retries # 0
    /\ IF dbUp
       THEN /\ schema' = TRUE
            /\ pc' = "run"
            /\ retries' = 0
       ELSE /\ retries' = retries - 1
            /\ pc' = "sleep"
            /\ UNCHANGED schema
    /\ UNCHANGED <<dbUp, appVars>>

(* time.sleep(3) returns *)
init_db_sleep ==
    /\ pc = "sleep"
    /\ pc' = "init_db"
    /\ UNCHANGED <<retries, dbUp, schema, appVars>>

(* retries is 0: the while condition is false and init_db returns *)
init_db_return ==
    /\ pc = "init_db"
    /\ retries = 0
    /\ pc' = "run"
    /\ UNCHANGED <<retries, dbUp, schema, appVars>>

(* app.run(host, port) *)
app_run ==
    /\ pc = "run"
    /\ pc' = "serving"
    /\ UNCHANGED <<retries, dbUp, schema, appVars>>

(* the database server starts accepting connections *)
DbStarts ==
    /\ ~dbUp
    /\ dbUp' = TRUE
    /\ UNCHANGED <<pc, retries, schema, appVars>>

(* a request that reaches a query while the tables were never created *)
RequestOps == {"register", "login"}

request_without_schema(op, data) ==
    /\ pc = "serving"
    /\ ~schema
    /\ Respond(op, NoToken, data, 500, [error |-> "OperationalError"])
    /\ UNCHANGED <<User, Task, today, days, bootVars>>

-----------------------------------------------------------------------------
(* The running application, after a start-up that created the tables *)
Init ==
    /\ User = <<>>
    /\ Task = <<>>
    /\ today = FirstDay
    /\ days = 0
    /\ req = NoRequest
    /\ resp = [status |-> 0, body |-> <<>>]
    /\ pc = "serving"
    /\ retries = 0
    /\ dbUp = TRUE
    /\ schema = TRUE

Next ==
    \/ \E data \in Registrations, salt \in Salts : register(data, salt)
    \/ \E data \in Credentials : login(data)
    \/ \E op \in Protected, token \in Presentable : jwt_rejected(op, token)
    \/ \E token \in Presentable : tasks_GET(token)
    \/ \E token \in Presentable, data \in TaskData : tasks_POST(token, data)
    \/ \E token \in Presentable, id \in 1..MaxTasks : complete_task(token, id)
    \/ \E token \in Presentable : stats(token)
    \/ \E token \in Presentable : reminders(token)
    \/ reminder_job
    \/ NextDay

Spec == Init /\ [][Next]_vars

(* The process from its first line *)
InitBoot ==
    /\ User = <<>>
    /\ Task = <<>>
    /\ today = FirstDay
    /\ days = 0
    /\ req = NoRequest
    /\ resp = [status |-> 0, body |-> <<>>]
    /\ pc = "init_db"
    /\ retries = InitialRetries
    /\ dbUp \in BOOLEAN
    /\ schema = FALSE

NextBoot ==
    \/ init_db_try
    \/ init_db_sleep
    \/ init_db_return
    \/ app_run
    \/ DbStarts
    \/ \E op \in RequestOps, data \in Credentials : request_without_schema(op, data)
    \/ Next

SpecBoot == InitBoot /\ [][NextBoot]_vars

-----------------------------------------------------------------------------
(* Vocabulary of the properties *)

(* the step handled a request (or job run) named op *)
Handled(op) == req'.op = op /\ UNCHANGED <<today, bootVars>>

(* the token /login gives the user with primary key b *)
LoginToken(b) == create_access_token(str(User[b].id))

(* a token /login gives some registered user *)
Issued(token) == \E b \in 1..Len(User) : token = LoginToken(b)

Owned(b) == { i \in 1..Len(Task) : Task[i].user_id = b }

PendingBefore(b) ==
    { i \in Owned(b) : Task[i].status # "Completed" /\ DateLess(Task[i].due_date, today) }

PendingOn(b) ==
    { i \in Owned(b) : Task[i].status # "Completed" /\ Task[i].due_date = today }

Nth(I, k) == CHOOSE i \in I : Cardinality({ j \in I : j < i }) = k - 1

(* list is the titles of the tasks numbered in I, in order of id *)
TitlesOf(list, I) ==
    /\ Len(list) = Cardinality(I)
    /\ \A k \in 1..Len(list) : list[k] = [title |-> Task[Nth(I, k)].title]

(* the password a user row was registered with *)
RegisteredPassword(u) == u.password.digest[2]

-----------------------------------------------------------------------------
(* C1: whatever user b asks with their own token, the answer holds only    *)
(* tasks b owns: the list, the stats counts and the reminder lists are     *)
(* those of b's tasks, and completing a task of another user answers 404   *)
(* and leaves the task table as it was.                                    *)
C1_Isolation ==
    [][ \A op \in Protected : Handled(op) =>
          \A b \in 1..Len(User) : (req'.token = LoginToken(b)) =>
            /\ (op = "tasks_GET") =>
                 /\ resp'.status = 200
                 /\ \A k \in 1..Len(resp'.body) : resp'.body[k].id \in Owned(b)
            /\ (op = "stats") =>
                 /\ resp'.body.status.completed + resp'.body.status.pending
                      = Cardinality(Owned(b))
                 /\ resp'.body.status.completed
                      = Cardinality({ i \in Owned(b) : Task[i].status = "Completed" })
                 /\ resp'.body.priority.Low + resp'.body.priority.Medium
                      + resp'.body.priority.High <= Cardinality(Owned(b))
            /\ (op = "reminders") =>
                 /\ TitlesOf(resp'.body.overdue, PendingBefore(b))
                 /\ TitlesOf(resp'.body.today, PendingOn(b))
            /\ (op = "complete_task" /\ req'.data \in 1..Len(Task)
                  /\ req'.data \notin Owned(b)) =>
                 /\ resp'.status = 404
                 /\ Task' = Task
      ]_vars

C1_Witness ==
    \E b \in 1..Len(User) :
        /\ req.op = "complete_task"
        /\ req.token = LoginToken(b)
        /\ req.data \in 1..Len(Task)
        /\ Task[req.data].user_id # b
        /\ Task[req.data].status = "Pending"
        /\ resp.status = 404

(* C2: right after a successful complete_task, the same call again answers *)
(* 200 as well, leaves the task table as the first call left it, and the   *)
(* task is Completed.                                                      *)
C2_Idempotent ==
    (req.op = "complete_task" /\ resp.status = 200) =>
        LET again == CompleteTask(Task, req.token, req.data)
        IN  /\ Task[req.data].status = "Completed"
            /\ again.status = 200
            /\ again.T = Task

C2_Witness ==
    /\ req.op = "complete_task"
    /\ resp.status = 200
    /\ Task[req.data].status = "Completed"
    /\ Len(Task) = 2

(* C3: in every stats answer, pending + completed is the number of tasks   *)
(* the caller owns; when those tasks use only Low, Medium and High, the    *)
(* three priority counts add up to that number too; a priority count       *)
(* includes the completed tasks.                                           *)
C3_StatsSums ==
    [][ (Handled("stats") /\ resp'.status = 200) =>
          LET b == int(get_jwt_identity(req'.token))
              n == Cardinality(Owned(b))
              body == resp'.body
          IN  /\ body.status.pending + body.status.completed = n
              /\ (\A i \in Owned(b) : Task[i].priority \in {"Low", "Medium", "High"})
                   => body.priority.Low + body.priority.Medium + body.priority.High = n
              /\ body.priority.High
                   = Cardinality({ i \in Owned(b) : Task[i].priority = "High" })
      ]_vars

C3_Witness ==
    /\ req.op = "stats"
    /\ resp.status = 200
    /\ resp.body.status.completed = 1
    /\ resp.body.status.pending = 1
    /\ resp.body.priority.High >= 1
    /\ \E i \in 1..Len(Task) :
          /\ Task[i].user_id = int(get_jwt_identity(req.token))
          /\ Task[i].priority = "High"
          /\ Task[i].status = "Completed"

(* C4: a reminders answer lists under overdue exactly the titles of the    *)
(* caller's tasks that are not Completed and due before today, and under   *)
(* today exactly those not Completed and due today; a Completed task is in *)
(* neither list.                                                           *)
C4_Reminders ==
    [][ (Handled("reminders") /\ resp'.status = 200) =>
          LET b == int(get_jwt_identity(req'.token))
          IN  /\ TitlesOf(resp'.body.overdue, PendingBefore(b))
              /\ TitlesOf(resp'.body.today, PendingOn(b))
              /\ Len(resp'.body.overdue) + Len(resp'.body.today)
                   <= Cardinality({ i \in Owned(b) : Task[i].status # "Completed" })
      ]_vars

C4_Witness ==
    /\ req.op = "reminders"
    /\ resp.status = 200
    /\ Len(resp.body.today) = 1
    /\ Len(resp.body.overdue) = 0
    /\ \E i \in 1..Len(Task) :
          /\ Task[i].user_id = int(get_jwt_identity(req.token))
          /\ Task[i].status = "Completed"
          /\ DateLess(Task[i].due_date, today)

(* C5: a register call for a username that is not stored succeeds and      *)
(* stores it; one for a stored username fails with DuplicateUser and       *)
(* leaves the user table as it was; no two rows ever share a username.     *)
C5_UniqueUsername ==
    /\ [](\A i, j \in 1..Len(User) : User[i].username = User[j].username => i = j)
    /\ [][ Handled("register") =>
             IF \E i \in 1..Len(User) : User[i].username = req'.data.username
             THEN /\ resp'.status = 500
                  /\ resp'.body = [error |-> "DuplicateUser"]
                  /\ User' = User
             ELSE /\ resp'.status = 200
                  /\ Len(User') = Len(User) + 1
                  /\ User'[Len(User')].username = req'.data.username
                  /\ SubSeq(User', 1, Len(User)) = User
         ]_vars

C5_Witness ==
    /\ req.op = "register"
    /\ resp.status = 500
    /\ Len(User) = 2
    /\ User[1].username = req.data.username

(* C6: a login with a stored username and the password it was registered   *)
(* with answers a token that jwt_required accepts and whose identity is    *)
(* that user's id; any other login answers 401 without a token.            *)
C6_Login ==
    [][ Handled("login") =>
          IF \E i \in 1..Len(User) :
                /\ User[i].username = req'.data.username
                /\ RegisteredPassword(User[i]) = req'.data.password
          THEN /\ resp'.status = 200
               /\ jwt_required(resp'.body.access_token)
               /\ \A i \in 1..Len(User) :
                     (int(get_jwt_identity(resp'.body.access_token)) = User[i].id)
                        <=> (User[i].username = req'.data.username)
          ELSE /\ resp'.status = 401
               /\ DOMAIN resp'.body = {"error"}
      ]_vars

C6_Witness ==
    /\ req.op = "login"
    /\ resp.status = 200
    /\ Len(User) = 2
    /\ User[2].username = req.data.username
    /\ int(get_jwt_identity(resp.body.access_token)) = 2

(* C7: a request to a protected route with no token, or with one that     *)
(* /login did not issue, answers 401 and changes neither table.           *)
C7_Unauthenticated ==
    [][ \A op \in Protected :
          (Handled(op) /\ ~Issued(req'.token)) =>
             /\ resp'.status = 401
             /\ User' = User
             /\ Task' = Task
      ]_vars

C7_Witness ==
    /\ req.op = "complete_task"
    /\ resp.status = 401
    /\ req.token \in ForgedTokens
    /\ \E i \in 1..Len(Task) :
          Task[i].status = "Pending" /\ str(Task[i].user_id) = req.token.sub

(* a date written YYYY-MM-DD: four, two and two digits, an existing day *)
IsoDate(s) ==
    /\ Len(s) = 10
    /\ \A i \in {1, 2, 3, 4, 6, 7, 9, 10} : IsDigit(s[i])
    /\ s[5] = "-" /\ s[8] = "-"
    /\ LET y == int(SubSeq(s, 1, 4))
           m == int(SubSeq(s, 6, 7))
           d == int(SubSeq(s, 9, 10))
       IN  y >= 1 /\ m \in 1..12 /\ d \in 1..DaysInMonth(y, m)

(* one or two digits *)
Number(t) == Len(t) \in {1, 2} /\ \A i \in 1..Len(t) : IsDigit(t[i])

(* a day number, where a blank may stand for the leading zero *)
DayText(t) == Number(t) \/ (Len(t) = 2 /\ t[1] = " " /\ IsDigit(t[2]))

DayValue(t) == IF t[1] = " " THEN DigitVal(t[2]) ELSE int(t)

(* s is year-month-day with the second "-" at position q and names an      *)
(* existing day; month and day may be written without the leading zero     *)
LooseAt(s, q) ==
    /\ Len(s) \in (q + 1)..(q + 2)
    /\ \A i \in 1..4 : IsDigit(s[i])
    /\ s[5] = "-" /\ s[q] = "-"
    /\ Number(SubSeq(s, 6, q - 1))
    /\ DayText(SubSeq(s, q + 1, Len(s)))
    /\ LET y == int(SubSeq(s, 1, 4))
           m == int(SubSeq(s, 6, q - 1))
           d == DayValue(SubSeq(s, q + 1, Len(s)))
       IN  y >= 1 /\ m \in 1..12 /\ d \in 1..DaysInMonth(y, m)

LooseDate(s) == \E q \in {7, 8} : LooseAt(s, q)

(* the step added one Pending task of the caller, due on the day s names *)
Created(s) ==
    /\ resp'.status = 200
    /\ Len(Task') = Len(Task) + 1
    /\ SubSeq(Task', 1, Len(Task)) = Task
    /\ LET t == Task'[Len(Task')]
       IN  /\ t.user_id = int(get_jwt_identity(req'.token))
           /\ t.status = "Pending"
           /\ \E q \in {7, 8} :
                 /\ LooseAt(s, q)
                 /\ t.due_date = <<int(SubSeq(s, 1, 4)), int(SubSeq(s, 6, q - 1)),
                                   DayValue(SubSeq(s, q + 1, Len(s)))>>

Refused ==
    /\ resp'.status = 500
    /\ resp'.body = [error |-> "InvalidInput"]
    /\ Task' = Task

(* C8 as stated: create_task with a due_date that is not a YYYY-MM-DD      *)
(* calendar date fails with InvalidInput and adds no task; with one that   *)
(* is, it adds exactly one Pending task owned by the caller.               *)
C8_StrictDate ==
    [][ (Handled("tasks_POST") /\ Issued(req'.token)) =>
          IF IsoDate(req'.data.due_date) THEN Created(req'.data.due_date) ELSE Refused
      ]_vars

(* C8 amended: create_task fails with InvalidInput and adds no task unless *)
(* due_date is a four-digit year, a month and a day of an existing date    *)
(* separated by "-", where month and day may be written without their      *)
(* leading zero; such a due_date adds exactly one Pending task owned by    *)
(* the caller, due on that date.                                           *)
C8_LooseDate ==
    [][ (Handled("tasks_POST") /\ Issued(req'.token)) =>
          IF LooseDate(req'.data.due_date) THEN Created(req'.data.due_date) ELSE Refused
      ]_vars

C8_Witness ==
    /\ req.op = "tasks_POST"
    /\ resp.status = 200
    /\ ~IsoDate(req.data.due_date)
    /\ Len(Task) >= 1
    /\ Task[Len(Task)].due_date = <<2024, 6, 1>>
    /\ Task[Len(Task)].status = "Pending"

(* C9: the server runs only after db.create_all() has succeeded. *)
C9_ServerNeedsSchema == pc = "serving" => schema

(* C10: a task row stays, with the id, owner, title, priority and due date *)
(* it has; its status changes only in a successful complete_task of its    *)
(* owner for that id, and only from Pending to Completed.                  *)
C10_Lifecycle ==
    [][ \A i \in 1..Len(Task) :
          /\ i <= Len(Task')
          /\ Task'[i].id = Task[i].id
          /\ Task'[i].user_id = Task[i].user_id
          /\ Task'[i].title = Task[i].title
          /\ Task'[i].priority = Task[i].priority
          /\ Task'[i].due_date = Task[i].due_date
          /\ Task[i].status = "Completed" => Task'[i].status = "Completed"
          /\ Task'[i].status # Task[i].status =>
                /\ Handled("complete_task")
                /\ resp'.status = 200
                /\ req'.data = i
                /\ Task[i].user_id \in 1..Len(User)
                /\ req'.token = LoginToken(Task[i].user_id)
                /\ Task[i].status = "Pending"
                /\ Task'[i].status = "Completed"
      ]_vars

C10_Witness ==
    /\ req.op = "reminder_job"
    /\ today # FirstDay
    /\ Len(Task) = 2
    /\ Task[1].status = "Completed"
    /\ Task[2].status = "Pending"
    /\ Task[1].user_id # Task[2].user_id

=============================================================================
